---- MODULE Spec2Model ----
(***************************************************************************)
(* The process supervisor of CourseVault's Electron main process           *)
(* (electron/main.ts): the backend service process (pythonProcess), the    *)
(* transcription worker pool (transcriptionWorkers), the crash-restart     *)
(* timer, and the quit sequence.                                           *)
(*                                                                         *)
(* Every ChildProcess object the supervisor obtains from spawn() is one    *)
(* entry of procs; a handle is the index of its entry, 0 is null.          *)
(***************************************************************************)
EXTENDS Integers, Sequences, FiniteSets, TLC

\* Bounds of the model
MaxProcs == 3          \* ChildProcess objects created in one run
MaxClock == 1          \* Date.now() takes the values 0..MaxClock
MaxChanged == 2        \* settings holding another value than at first launch

MaxChunk == 2          \* lines in one chunk read from an output pipe
MaxWords == 2          \* words in one log string received by the renderer

\* waitForServer: for (let i = 0; i < 60; i++)
ProbeLimit == 60

\* Inputs offered to set-settings for parallelWorkers (validator: 1..8)
WorkerCountInputs == {0, 1, 2, 9}

\* Names offered to set-settings and set-secure-setting: the registered
\* ones and one registered nowhere
SettingNames == {"transcriptsPath", "sourceDirectories", "serverPort", "theme",
                 "llmBackend", "whisperModel", "gpuAcceleration",
                 "parallelWorkers", "windowBounds", "openaiApiKey", "debugMode"}

VARIABLES
    platform,              \* process.platform: "win32" or "posix" (fixed per run)
    phase,                 \* "init" (before whenReady), "ready", "quitting" (before-quit ran), "quit"
    procs,                 \* sequence of ChildProcess records, in spawn order
    pythonProcess,         \* handle of the tracked service process, 0 = null
    transcriptionWorkers,  \* sequence of handles of the tracked workers
    isQuitting,            \* the shutdown flag
    timers,                \* pending setTimeout(() => startPythonServer(), 2000) callbacks
    autoStartPending,      \* autoStartTranscriptionWorker() is running (boot start resolved)
    store,                 \* the settings store: key -> value
    secureStore,           \* the encrypted store: key -> value
    windowOpen,            \* mainWindow && !mainWindow.isDestroyed()
    now,                   \* Date.now()
    statusBar,             \* the renderer's StatusBar: worker state and log of stops
    license,               \* the renderer's app store: state.license
    out                    \* what the last handler was asked, returned, sent to the renderer and logged

vars == <<platform, phase, procs, pythonProcess, transcriptionWorkers,
          isQuitting, timers, autoStartPending, store, secureStore,
          windowOpen, now, statusBar, license, out>>

Platforms == {"win32", "posix"}
ExitCodes == {0, 1}
Clock == 0..MaxClock
SpawnOutcomes == {"missing", "nopid", "ok"}
Origins == {"boot", "ipc", "tray", "timer"}

Handles == 1..Len(procs)

\* A ChildProcess as returned by spawn(): pid is FALSE when the spawn failed.
\* state: "none" (no OS process), "running", "exited" (the OS process is
\* gone, its 'close' event not yet delivered), "closed" ('close' handled).
\* kills: termination requests issued against it.
\* forced: one of them was forceful (taskkill /F); kill('SIGTERM') and
\* kill() are graceful.
\* waiter: the startPythonServer() call still awaiting waitForServer() for it.
\* wid: the --worker-id argument <<ordinal, Date.now()>>, <<>> for the service.
\* code: the exit code a worker's 'close' event carries, -1 before its exit.
\* probes: health probes issued so far by the waitForServer() loop of its
\* start (counted where the loop is followed probe by probe).
\* port: the --port argument of the service, store.get('serverPort') read
\* when startPythonServer spawns it; 0 for a worker.
NewProc(kind, haspid, origin) ==
    [kind |-> kind, pid |-> haspid,
     state |-> IF haspid THEN "running" ELSE "none",
     kills |-> 0, forced |-> FALSE, waiter |-> origin, wid |-> <<>>,
     code |-> -1, probes |-> 0,
     port |-> IF kind = "service" THEN store["serverPort"].n ELSE 0]

\* The mutable supervisor state the start/stop functions read and write
\* together with what the running handler has sent and logged so far:
\* sent: transcriber-status events, errors: console.error entries,
\* spawns: spawn() calls of the worker loop
St == [procs |-> procs, pythonProcess |-> pythonProcess,
       transcriptionWorkers |-> transcriptionWorkers, timers |-> timers,
       sent |-> <<>>, errors |-> 0, spawns |-> 0]

Apply(s) ==
    /\ procs' = s.procs
    /\ pythonProcess' = s.pythonProcess
    /\ transcriptionWorkers' = s.transcriptionWorkers
    /\ timers' = s.timers

\* One termination request against handle h: taskkill /pid /T /F on win32
\* (synchronous and forceful: a running process is gone when it returns; it
\* throws for a process already gone and the catch falls back to kill()),
\* kill('SIGTERM') elsewhere. A handle without a pid has no process: win32
\* skips it, kill() returns false.
Terminate(ps, h) ==
    IF ~ps[h].pid THEN ps
    ELSE [ps EXCEPT ![h].kills = @ + 1,
                    ![h].forced = @ \/ platform = "win32",
                    ![h].state = IF platform = "win32" /\ @ = "running"
                                 THEN "exited" ELSE @]

RECURSIVE TerminateAll(_, _)
TerminateAll(ps, hs) ==
    IF hs = <<>> THEN ps
    ELSE TerminateAll(Terminate(ps, Head(hs)), Tail(hs))

\* stopPythonServer without its final "pythonProcess = null"
stopPythonServerKeepsHandle(s) ==
    IF s.pythonProcess = 0 THEN s
    ELSE [s EXCEPT !.procs = Terminate(@, s.pythonProcess)]

stopPythonServer(s) ==
    IF s.pythonProcess = 0 THEN s
    ELSE [s EXCEPT !.procs = Terminate(@, s.pythonProcess),
                   !.pythonProcess = 0]

\* startPythonServer scheduling a retry when the spawn yields no pid
startPythonServerRetriesSpawn(s, origin, outcome) ==
    CASE outcome = "missing" -> s
      [] outcome = "nopid" ->
            [s EXCEPT !.procs = Append(@, NewProc("service", FALSE, "none")),
                      !.pythonProcess = Len(s.procs) + 1,
                      !.timers = @ + 1]
      [] outcome = "ok" ->
            [s EXCEPT !.procs = Append(@, NewProc("service", TRUE, origin)),
                      !.pythonProcess = Len(s.procs) + 1]

startPythonServer(s, origin, outcome) ==
    CASE outcome = "missing" -> s
      [] outcome = "nopid" ->
            [s EXCEPT !.procs = Append(@, NewProc("service", FALSE, "none")),
                      !.pythonProcess = Len(s.procs) + 1]
      [] outcome = "ok" ->
            [s EXCEPT !.procs = Append(@, NewProc("service", TRUE, origin)),
                      !.pythonProcess = Len(s.procs) + 1]

\* A transcriber-status event: {running: true, workerCount} or
\* {running: false, exitCode}; the absent field is -1
StatusEvent(running, workerCount, exitCode) ==
    [running |-> running, workerCount |-> workerCount, exitCode |-> exitCode]

\* mainWindow.webContents.send('transcriber-status', e), guarded by
\* mainWindow && !mainWindow.isDestroyed()
SendStatus(s, e) ==
    IF windowOpen THEN [s EXCEPT !.sent = Append(@, e)] ELSE s

\* The spawn loop: iteration i calls spawn() with worker id
\* `worker-${i}-${Date.now()}`; when oks[i] the worker has a pid and is
\* pushed, otherwise an error is logged and the loop continues.
\* The clock is read as one value for the whole synchronous loop.
RECURSIVE SpawnWorkers(_, _, _)
SpawnWorkers(s, oks, i) ==
    IF i > Len(oks) THEN s
    ELSE IF ~oks[i]
    THEN SpawnWorkers([s EXCEPT !.spawns = @ + 1, !.errors = @ + 1], oks, i + 1)
    ELSE SpawnWorkers(
            [s EXCEPT !.procs = Append(@, [NewProc("worker", TRUE, "none")
                                             EXCEPT !.wid = <<i, now>>]),
                      !.transcriptionWorkers = Append(@, Len(s.procs) + 1),
                      !.spawns = @ + 1],
            oks, i + 1)

\* startTranscriptionWorker without its "already running" guard
startTranscriptionWorkerUnguarded(s, scriptFound, oks) ==
    IF ~scriptFound THEN [s EXCEPT !.errors = @ + 1]
    ELSE LET r == SpawnWorkers(s, oks, 1)
         IN SendStatus(r, StatusEvent(TRUE, Len(r.transcriptionWorkers), -1))

\* startTranscriptionWorker spawning one worker whatever parallelWorkers is
startTranscriptionWorkerSingle(s, scriptFound, oks) ==
    IF Len(s.transcriptionWorkers) > 0 THEN s
    ELSE IF ~scriptFound THEN [s EXCEPT !.errors = @ + 1]
    ELSE LET r == SpawnWorkers(s, <<oks[1]>>, 1)
         IN SendStatus(r, StatusEvent(TRUE, Len(r.transcriptionWorkers), -1))

\* scriptFound: fs.existsSync of the worker script / bundled worker
startTranscriptionWorker(s, scriptFound, oks) ==
    IF Len(s.transcriptionWorkers) > 0 THEN s
    ELSE IF ~scriptFound THEN [s EXCEPT !.errors = @ + 1]
    ELSE LET r == SpawnWorkers(s, oks, 1)
         IN SendStatus(r, StatusEvent(TRUE, Len(r.transcriptionWorkers), -1))

\* stopTranscriptionWorker terminating only the first tracked worker
stopTranscriptionWorkerFirstOnly(s) ==
    IF Len(s.transcriptionWorkers) = 0 THEN s
    ELSE [s EXCEPT !.procs = Terminate(@, Head(s.transcriptionWorkers)),
                   !.transcriptionWorkers = <<>>]

stopTranscriptionWorker(s) ==
    IF Len(s.transcriptionWorkers) = 0 THEN s
    ELSE [s EXCEPT !.procs = TerminateAll(@, s.transcriptionWorkers),
                   !.transcriptionWorkers = <<>>]

\* get-server-status: running
ServerStatusRunning == pythonProcess # 0

\* get-server-status: port; also the port autoStartTranscriptionWorker
\* sends its pending-work query to
ServerStatusPort == store["serverPort"].n

\* get-transcription-status reporting the configured count
PoolStatusReportsConfigured(tw) ==
    [running |-> Len(tw) > 0,
     workerCount |-> IF Len(tw) > 0 THEN store["parallelWorkers"].n ELSE 0]

\* get-transcription-status: {running, workerCount}
PoolStatus(tw) == [running |-> Len(tw) > 0, workerCount |-> Len(tw)]

RECURSIVE SeqFilterOut(_, _)
SeqFilterOut(q, h) ==
    IF q = <<>> THEN <<>>
    ELSE IF Head(q) = h THEN SeqFilterOut(Tail(q), h)
    ELSE <<Head(q)>> \o SeqFilterOut(Tail(q), h)

NumTrue(oks) == Cardinality({i \in 1..Len(oks) : oks[i]})

Room == MaxProcs - Len(procs)

(***************************************************************************)
(* Settings. A value received over IPC is a record of one shape:           *)
(* t is its JavaScript type, s the string, n the number (whole: it is an   *)
(* integer), b the boolean, items the strings of an array (strs: every     *)
(* element is a string), w and h the width and height of an object (dims:  *)
(* both are numbers), extra: the object has a further property.            *)
(***************************************************************************)
Blank == [t |-> "null", s |-> "", n |-> 0, whole |-> TRUE, b |-> FALSE,
          items |-> <<>>, strs |-> TRUE, w |-> 0, h |-> 0, dims |-> TRUE,
          extra |-> FALSE]
Null == Blank
Str(x) == [Blank EXCEPT !.t = "string", !.s = x]
Num(x) == [Blank EXCEPT !.t = "number", !.n = x]
Frac(x) == [Blank EXCEPT !.t = "number", !.n = x, !.whole = FALSE]
Bool(x) == [Blank EXCEPT !.t = "boolean", !.b = x]
Arr(xs) == [Blank EXCEPT !.t = "array", !.items = xs]
ArrMixed(xs) == [Blank EXCEPT !.t = "array", !.items = xs, !.strs = FALSE]
Obj(w, h) == [Blank EXCEPT !.t = "object", !.w = w, !.h = h]
ObjExtra(w, h) == [Blank EXCEPT !.t = "object", !.w = w, !.h = h, !.extra = TRUE]
ObjNoDims == [Blank EXCEPT !.t = "object", !.dims = FALSE]

\* Values offered to set-settings
SettingValues ==
    {Null, Str(""), Str("light"), Str("ultraviolet"), Str("ollama"),
     Num(0), Num(2), Num(999), Num(1024), Num(65536), Frac(2),
     Bool(FALSE), Arr(<<"light">>), Arr(<<"light", "">>), ArrMixed(<<"light">>),
     Obj(800, 600), ObjExtra(800, 600), ObjNoDims}

\* Values offered to set-secure-setting (string | null)
SecureValues == {Null, Str("light")}

\* the keys of settingsSchema
SchemaKeys == {"transcriptsPath", "sourceDirectories", "serverPort", "theme",
               "llmBackend", "whisperModel", "gpuAcceleration",
               "parallelWorkers", "windowBounds"}
SECURE_KEYS == {"openaiApiKey"}

\* the validator with the range of serverPort and parallelWorkers unchecked
settingsSchemaUnranged(key, v) ==
    CASE key \in {"transcriptsPath", "whisperModel"} -> v.t = "string"
      [] key = "sourceDirectories" -> v.t = "array" /\ v.strs
      [] key = "serverPort" -> v.t = "number" /\ v.whole
      [] key = "theme" -> v.t = "string" /\ v.s \in {"dark", "light"}
      [] key = "llmBackend" ->
            v.t = "null" \/ (v.t = "string" /\ v.s \in {"ollama", "lmstudio", "openai"})
      [] key = "gpuAcceleration" -> v.t = "boolean"
      [] key = "parallelWorkers" -> v.t = "number" /\ v.whole
      [] key = "windowBounds" -> v.t = "object" /\ v.dims
      [] OTHER -> FALSE

\* settingsSchema.safeParse({key, value}).success
settingsSchema(key, v) ==
    CASE key \in {"transcriptsPath", "whisperModel"} -> v.t = "string"
      [] key = "sourceDirectories" -> v.t = "array" /\ v.strs
      [] key = "serverPort" ->
            v.t = "number" /\ v.whole /\ v.n >= 1024 /\ v.n <= 65535
      [] key = "theme" -> v.t = "string" /\ v.s \in {"dark", "light"}
      [] key = "llmBackend" ->
            v.t = "null" \/ (v.t = "string" /\ v.s \in {"ollama", "lmstudio", "openai"})
      [] key = "gpuAcceleration" -> v.t = "boolean"
      [] key = "parallelWorkers" ->
            v.t = "number" /\ v.whole /\ v.n >= 1 /\ v.n <= 8
      [] key = "windowBounds" -> v.t = "object" /\ v.dims
      [] OTHER -> FALSE

\* result.data.value: the parsed value; z.object() drops the properties
\* its shape does not name
Parsed(key, v) ==
    IF key = "windowBounds" THEN [v EXCEPT !.extra = FALSE] ELSE v

\* store.set(key, value)
StoreSet(st, key, v) ==
    [k \in DOMAIN st \cup {key} |-> IF k = key THEN v ELSE st[k]]

\* set-settings storing the value as received
setSettingsStoresRaw(st, key, v) ==
    IF ~settingsSchema(key, v) THEN st
    ELSE StoreSet(st, key, v)

\* the set-settings handler's effect on the store
setSettings(st, key, v) ==
    IF ~settingsSchema(key, v) THEN st
    ELSE StoreSet(st, key, Parsed(key, v))

\* set-secure-setting without its SECURE_KEYS test
setSecureSettingAnyKey(st, key, v) ==
    StoreSet(st, key, v)

\* the set-secure-setting handler's effect on the encrypted store
setSecureSetting(st, key, v) ==
    IF key \notin SECURE_KEYS THEN st
    ELSE StoreSet(st, key, v)

\* the defaults of the settings store
StoreDefaults ==
    [transcriptsPath |-> Str("transcripts"),
     sourceDirectories |-> Arr(<<"Documents">>),
     serverPort |-> Num(8080),
     theme |-> Str("dark"),
     llmBackend |-> Null,
     whisperModel |-> Str("base.en"),
     gpuAcceleration |-> Bool(TRUE),
     parallelWorkers |-> Num(1),
     windowBounds |-> Obj(1400, 900)]

\* store.get('parallelWorkers') || 1
parallelWorkers ==
    IF store["parallelWorkers"].n = 0 THEN 1 ELSE store["parallelWorkers"].n

(***************************************************************************)
(* URLs. The string handed to open-external is a record: parses tells      *)
(* whether new URL() accepts it, scheme and host are the scheme and the    *)
(* host as they are written in it.                                         *)
(***************************************************************************)
Url(scheme, host) == [parses |-> TRUE, scheme |-> scheme, host |-> host]
NotAUrl == [parses |-> FALSE, scheme |-> "", host |-> ""]

\* Strings offered to open-external
UrlInputs ==
    {NotAUrl,
     Url("https", "example.com"), Url("http", "example.com"),
     Url("HTTPS", "example.com"),
     Url("javascript", ""), Url("file", ""), Url("ftp", "example.com"),
     Url("httpx", "example.com"),
     Url("http", "127.0.0.1"), Url("http", "localhost"),
     Url("https", "[::1]"), Url("http", "0.0.0.0")}

\* the URL parser lower-cases the scheme
LowerCase(scheme) ==
    CASE scheme = "HTTPS" -> "https"
      [] scheme = "HTTP" -> "http"
      [] OTHER -> scheme

\* new URL(url).protocol; "" when the constructor throws
Protocol(u) == IF u.parses THEN LowerCase(u.scheme) \o ":" ELSE ""

\* open-external opening whatever parses as a URL
openExternalAnyScheme(u) == u.parses

\* the open-external handler: is shell.openExternal(url) called
openExternal(u) ==
    u.parses /\ (Protocol(u) = "https:" \/ Protocol(u) = "http:")

(***************************************************************************)
(* Process output. A chunk handed to a 'data' handler is the sequence of   *)
(* the lines its text consists of (data.toString() is these lines joined   *)
(* by '\n'); a line is the text it stands for.                             *)
(***************************************************************************)
Lines == {"", "COMPLETED lesson-1", "Traceback (most recent call last)",
          "Error while decoding stream #0:0", "GET /health HTTP/1.1 200"}

RECURSIVE SeqsUpTo(_, _)
SeqsUpTo(S, n) ==
    IF n = 0 THEN {<<>>}
    ELSE LET shorter == SeqsUpTo(S, n - 1)
         IN shorter \cup {Append(q, x) : q \in shorter, x \in S}

\* chunks a 'data' event can carry: at least one line
Chunks == SeqsUpTo(Lines, MaxChunk) \ {<<>>}

\* message.includes(...) of the worker stderr handler's six markers
IsFFmpegNoise(chunk) ==
    \E i \in 1..Len(chunk) : chunk[i] = "Error while decoding stream #0:0"

\* message.includes('HTTP/1.1" 200') and its two siblings
IsAccessLog(chunk) ==
    \E i \in 1..Len(chunk) : chunk[i] = "GET /health HTTP/1.1 200"

\* data.toString().split('\n').filter(l => l.trim())
SplitLines(chunk) == SelectSeq(chunk, LAMBDA l : l # "")

\* an event sent to the renderer: the channel and the string, as lines
RelayEvent(channel, lines) == [channel |-> channel, text |-> lines]

\* the events a 'data' handler sends to the renderer for a chunk
Relay(kind, stream, chunk) ==
    IF ~windowOpen THEN <<>>
    ELSE CASE kind = "service" /\ stream = "stdout" ->
                <<RelayEvent("python-log", chunk)>>
           [] kind = "service" /\ stream = "stderr" ->
                IF IsAccessLog(chunk) THEN <<>>
                ELSE <<RelayEvent("python-error", chunk)>>
           [] kind = "worker" /\ stream = "stdout" ->
                [i \in 1..Len(SplitLines(chunk)) |->
                    RelayEvent("transcriber-log", <<SplitLines(chunk)[i]>>)]
           [] kind = "worker" /\ stream = "stderr" ->
                IF IsFFmpegNoise(chunk) THEN <<>>
                ELSE <<RelayEvent("transcriber-error", chunk)>>

\* the console entries a 'data' handler writes for a chunk, by their tag
\* (the decoder-noise entry holds the first 100 characters of the chunk)
Console(kind, stream, chunk) ==
    CASE kind = "service" /\ stream = "stdout" -> <<"[Python]">>
      [] kind = "service" /\ stream = "stderr" ->
            IF IsAccessLog(chunk) THEN <<>> ELSE <<"[Python Error]">>
      [] kind = "worker" /\ stream = "stdout" ->
            [i \in 1..Len(SplitLines(chunk)) |-> "[Worker]"]
      [] kind = "worker" /\ stream = "stderr" ->
            IF IsFFmpegNoise(chunk) THEN <<"[Worker FFmpeg]">>
            ELSE <<"[Worker Error]">>

\* what a handler was asked and hands back: op names the handler, req is
\* the (key, value) of a settings request, url the string of an
\* open-external request, data the process, stream and chunk of a 'data'
\* event, ok a boolean return value, status a returned {running,
\* workerCount} (an absent workerCount is -1), opened: the handler called
\* shell.openExternal, relayed and console: the log events sent and the
\* console entries written, sent, errors and spawns as in St
NoStatus == [running |-> FALSE, workerCount |-> -1]
NoRequest == [key |-> "", value |-> Null]
NoData == [h |-> 0, stream |-> "", chunk |-> <<>>]

(***************************************************************************)
(* Licenses. A key string is the record of what validateLicenseKey finds   *)
(* in it: prefix (it starts with 'CV-'), dash and dot (the tier separator  *)
(* and the signature separator are there), signed (the Ed25519 signature   *)
(* verifies), and the payload's tier and expiry ("none", "past",          *)
(* "future"); id tells the strings apart.                                  *)
(***************************************************************************)
LicenseKey(id, prefix, dash, dot, signed, tier, expires) ==
    [id |-> id, prefix |-> prefix, dash |-> dash, dot |-> dot,
     signed |-> signed, tier |-> tier, expires |-> expires]
NoKey == LicenseKey("", FALSE, FALSE, FALSE, FALSE, "free", "none")
LicenseKeys ==
    {NoKey,
     LicenseKey("PRO-12345", FALSE, TRUE, FALSE, FALSE, "pro", "none"),
     LicenseKey("CV-PRO", TRUE, FALSE, FALSE, FALSE, "pro", "none"),
     LicenseKey("CV-PRO-payload", TRUE, TRUE, FALSE, FALSE, "pro", "none"),
     LicenseKey("CV-PRO-payload.forged", TRUE, TRUE, TRUE, FALSE, "pro", "none"),
     LicenseKey("CV-PRO-payload.sig", TRUE, TRUE, TRUE, TRUE, "pro", "none"),
     LicenseKey("CV-PRO-lapsed.sig", TRUE, TRUE, TRUE, TRUE, "pro", "past"),
     LicenseKey("CV-PROPLUS-payload.sig", TRUE, TRUE, TRUE, TRUE, "pro_plus", "future")}

TIER_FEATURES ==
    [free |-> {"transcribe", "summarize", "chat"},
     pro |-> {"transcribe", "summarize", "chat", "export", "unlimited_courses"},
     pro_plus |-> {"transcribe", "summarize", "chat", "export",
                   "unlimited_courses", "cloud_backup", "auto_transcribe"}]

\* validateLicenseKey(key): {valid, tier, status, features}
validateLicenseKey(key) ==
    LET invalidResult == [valid |-> FALSE, tier |-> "free", status |-> "invalid",
                          features |-> TIER_FEATURES["free"]]
    IN IF ~key.prefix \/ ~key.dash \/ ~key.dot \/ ~key.signed THEN invalidResult
       ELSE IF key.expires = "past"
       THEN [valid |-> FALSE, tier |-> key.tier, status |-> "expired",
             features |-> TIER_FEATURES["free"]]
       ELSE [valid |-> TRUE, tier |-> key.tier, status |-> "valid",
             features |-> TIER_FEATURES[key.tier]]

\* the initial state.license of a production build, and what clearLicense sets
LicenseInit == [key |-> NoKey, tier |-> "free", status |-> "none",
                features |-> TIER_FEATURES["free"]]

\* activateLicense(key): the license it leaves in the store; hasApi:
\* window.electronAPI?.validateLicense exists
activateLicense(lic, key, hasApi) ==
    IF hasApi
    THEN LET result == validateLicenseKey(key)
         IN IF result.valid
            THEN [key |-> key, tier |-> result.tier, status |-> "valid",
                  features |-> result.features]
            ELSE [lic EXCEPT !.status = result.status, !.key = NoKey,
                             !.features = TIER_FEATURES["free"]]
    ELSE [lic EXCEPT !.status = "invalid", !.key = NoKey,
                     !.features = TIER_FEATURES["free"]]

\* canUseFeature(feature); withinHours and withinCourses: the usage is
\* below the free tier's limits
canUseFeature(lic, feature, withinHours, withinCourses) ==
    IF feature \notin TIER_FEATURES[lic.tier] THEN FALSE
    ELSE IF lic.tier = "free"
    THEN CASE feature = "transcribe" -> withinHours
           [] feature \in {"summarize", "chat"} -> withinCourses
           [] OTHER -> TRUE
    ELSE TRUE

(***************************************************************************)
(* The renderer's activity log (StatusBar). A log string is the sequence   *)
(* of its words; " " is a run of white space. String.includes(marker) is   *)
(* the presence of the marker among the words, case-sensitively.           *)
(***************************************************************************)
Words == {" ", "COMPLETED", "SUCCESS", "ERROR", "FAILED", "Processing:",
          "Transcribing", "error", "lesson-1"}
LogTexts == SeqsUpTo(Words, MaxWords)

Includes(text, marker) == \E i \in 1..Len(text) : text[i] = marker

\* String.prototype.trim
RECURSIVE TrimStart(_)
TrimStart(text) ==
    IF text # <<>> /\ Head(text) = " " THEN TrimStart(Tail(text)) ELSE text
RECURSIVE TrimEnd(_)
TrimEnd(text) ==
    IF text # <<>> /\ text[Len(text)] = " "
    THEN TrimEnd(SubSeq(text, 1, Len(text) - 1)) ELSE text
Trim(text) == TrimEnd(TrimStart(text))

\* the type the onTranscriberLog handler gives a trimmed string, with the
\* failure markers tested first
LogTypeErrorFirst(trimmed) ==
    IF Includes(trimmed, "ERROR") \/ Includes(trimmed, "FAILED")
      THEN "error"
    ELSE IF Includes(trimmed, "COMPLETED") \/ Includes(trimmed, "SUCCESS")
      THEN "success"
    ELSE IF Includes(trimmed, "Processing:") \/ Includes(trimmed, "Transcribing")
      THEN "progress"
    ELSE "info"
\* the type the onTranscriberLog handler gives a trimmed string
LogType(trimmed) ==
    IF Includes(trimmed, "COMPLETED") \/ Includes(trimmed, "SUCCESS")
      THEN "success"
    ELSE IF Includes(trimmed, "ERROR") \/ Includes(trimmed, "FAILED")
      THEN "error"
    ELSE IF Includes(trimmed, "Processing:") \/ Includes(trimmed, "Transcribing")
      THEN "progress"
    ELSE "info"

\* addLog(`${prefix} ${trimmed}`, type); nothing is added for a blank string
NoLog == [added |-> FALSE, prefix |-> "", text |-> <<>>, type |-> ""]
AddLog(prefix, trimmed, type) ==
    IF trimmed = <<>> THEN NoLog
    ELSE [added |-> TRUE, prefix |-> prefix, text |-> trimmed, type |-> type]

Quiet == [op |-> "none", req |-> NoRequest, url |-> NotAUrl, data |-> NoData,
          received |-> <<>>, log |-> NoLog, key |-> NoKey,
          ok |-> FALSE, status |-> NoStatus, opened |-> FALSE,
          relayed |-> <<>>, console |-> <<>>,
          sent |-> <<>>, errors |-> 0, spawns |-> 0]
Out(op, ok, status, s) ==
    [op |-> op, req |-> NoRequest, url |-> NotAUrl, data |-> NoData,
     received |-> <<>>, log |-> NoLog, key |-> NoKey,
     ok |-> ok, status |-> status, opened |-> FALSE,
     relayed |-> <<>>, console |-> <<>>,
     sent |-> s.sent, errors |-> s.errors, spawns |-> s.spawns]

\* StatusBar's useState values: workerRunning, workerCount, and stopped:
\* the 'Transcription worker stopped' entries its log holds after the last
\* status with running = true
StatusBarInit == [workerRunning |-> FALSE, workerCount |-> 0, stopped |-> 0]

\* the onTranscriberStatus callback for one transcriber-status event
onTranscriberStatus(sb, e) ==
    [workerRunning |-> e.running,
     workerCount |-> IF e.workerCount > 0 THEN e.workerCount
                     ELSE IF e.running THEN 1 ELSE 0,
     stopped |-> IF e.running THEN 0 ELSE sb.stopped + 1]

RECURSIVE Deliver(_, _)
Deliver(sb, events) ==
    IF events = <<>> THEN sb
    ELSE Deliver(onTranscriberStatus(sb, Head(events)), Tail(events))

Init ==
    /\ platform \in Platforms
    /\ phase = "init"
    /\ procs = <<>>
    /\ pythonProcess = 0
    /\ transcriptionWorkers = <<>>
    /\ isQuitting = FALSE
    /\ timers = 0
    /\ autoStartPending = FALSE
    /\ store = StoreDefaults
    /\ secureStore = [k \in {} |-> Null]
    /\ windowOpen = FALSE
    /\ now = 0
    /\ statusBar = StatusBarInit
    /\ license = LicenseInit
    /\ out = Quiet

Handling == phase \in {"ready", "quitting"}

\* app.whenReady(): createWindow(), then
\* startPythonServer().then(autoStartTranscriptionWorker)
AppReady ==
    /\ phase = "init"
    /\ \E outcome \in SpawnOutcomes :
        /\ Apply(startPythonServer(St, "boot", outcome))
        /\ autoStartPending' = (outcome # "ok")
    /\ phase' = "ready"
    /\ windowOpen' = TRUE
    /\ out' = Quiet
    /\ UNCHANGED <<platform, isQuitting, store, secureStore, now, statusBar, license>>

\* ipcMain.handle('restart-server') and the tray's 'Restart Server'
Restart(origin) ==
    /\ Handling
    /\ Room >= 1
    /\ \E outcome \in SpawnOutcomes :
        Apply(startPythonServer(stopPythonServer(St), origin, outcome))
    /\ out' = Quiet
    /\ UNCHANGED <<platform, phase, isQuitting, store, secureStore, windowOpen, now, autoStartPending, statusBar, license>>

RestartServer == Restart("ipc")
TrayRestart == Restart("tray")

\* the crash-restart timer fires: () => startPythonServer()
TimerFires ==
    /\ Handling
    /\ timers > 0
    /\ Room >= 1
    /\ \E outcome \in SpawnOutcomes :
        Apply(startPythonServer([St EXCEPT !.timers = @ - 1], "timer", outcome))
    /\ out' = Quiet
    /\ UNCHANGED <<platform, phase, isQuitting, store, secureStore, windowOpen, now, autoStartPending, statusBar, license>>

\* an OS process ends (on its own, or because of a signal it was sent)
ProcessExit(h) ==
    /\ Handling
    /\ procs[h].state = "running"
    /\ \E c \in ExitCodes :
        procs' = [procs EXCEPT ![h].state = "exited",
                               ![h].code = IF procs[h].kind = "worker" THEN c ELSE @]
    /\ out' = Quiet
    /\ UNCHANGED <<platform, phase, pythonProcess, transcriptionWorkers,
                   isQuitting, timers, store, secureStore, windowOpen, now, autoStartPending, statusBar, license>>

\* the close handler scheduling the restart without clearing the handle
ServiceCloseKeepsHandle(h) ==
    /\ Handling
    /\ procs[h].kind = "service"
    /\ procs[h].state = "exited"
    /\ procs' = [procs EXCEPT ![h].state = "closed"]
    /\ timers' = IF ~isQuitting THEN timers + 1 ELSE timers
    /\ out' = Quiet
    /\ UNCHANGED <<platform, phase, pythonProcess, transcriptionWorkers,
                   isQuitting, store, secureStore, windowOpen, now, autoStartPending, statusBar, license>>

\* pythonProcess.on('close')
ServiceClose(h) ==
    /\ Handling
    /\ procs[h].kind = "service"
    /\ procs[h].state = "exited"
    /\ procs' = [procs EXCEPT ![h].state = "closed"]
    /\ pythonProcess' = 0
    /\ timers' = IF ~isQuitting THEN timers + 1 ELSE timers
    /\ out' = Quiet
    /\ UNCHANGED <<platform, phase, transcriptionWorkers, isQuitting,
                   store, secureStore, windowOpen, now, autoStartPending, statusBar, license>>

\* the worker close handler sending the stopped event on every close
WorkerCloseAlwaysNotifies(h) ==
    /\ Handling
    /\ procs[h].kind = "worker"
    /\ procs[h].state = "exited"
    /\ LET s == [St EXCEPT !.procs[h].state = "closed",
                           !.transcriptionWorkers = SeqFilterOut(@, h)]
           r == SendStatus(s, StatusEvent(FALSE, -1, procs[h].code))
       IN Apply(r) /\ out' = Out("worker-close", FALSE, NoStatus, r)
    /\ UNCHANGED <<platform, phase, isQuitting, store, secureStore,
                   windowOpen, now, autoStartPending, statusBar, license>>

\* worker.on('close') removing the worker by its position in the spawn
\* loop instead of by identity
WorkerCloseByPosition(h) ==
    /\ Handling
    /\ procs[h].kind = "worker"
    /\ procs[h].state = "exited"
    /\ LET s == [St EXCEPT !.procs[h].state = "closed",
                           !.transcriptionWorkers =
                               SelectSeq(@, LAMBDA g :
                                   procs[g].wid[1] # procs[h].wid[1])]
           r == IF Len(s.transcriptionWorkers) = 0
                THEN SendStatus(s, StatusEvent(FALSE, -1, procs[h].code))
                ELSE s
       IN Apply(r) /\ out' = Out("worker-close", FALSE, NoStatus, r)
    /\ UNCHANGED <<platform, phase, isQuitting, store, secureStore,
                   windowOpen, now, autoStartPending, statusBar, license>>

\* worker.on('close'): the handle is filtered out of the tracked set; when
\* that leaves the set empty the stopped event is sent
WorkerClose(h) ==
    /\ Handling
    /\ procs[h].kind = "worker"
    /\ procs[h].state = "exited"
    /\ LET s == [St EXCEPT !.procs[h].state = "closed",
                           !.transcriptionWorkers = SeqFilterOut(@, h)]
           r == IF Len(s.transcriptionWorkers) = 0
                THEN SendStatus(s, StatusEvent(FALSE, -1, procs[h].code))
                ELSE s
       IN Apply(r) /\ out' = Out("worker-close", FALSE, NoStatus, r)
    /\ UNCHANGED <<platform, phase, isQuitting, store, secureStore,
                   windowOpen, now, autoStartPending, statusBar, license>>

\* the await waitForServer(port) of a startPythonServer() call returns
\* (a probe succeeded or the attempts are exhausted); the caller resumes
WaitForServerReturns(h) ==
    /\ Handling
    /\ procs[h].waiter # "none"
    /\ procs' = [procs EXCEPT ![h].waiter = "none"]
    /\ autoStartPending' = IF procs[h].waiter = "boot" THEN TRUE ELSE autoStartPending
    /\ out' = Quiet
    /\ UNCHANGED <<platform, phase, pythonProcess, transcriptionWorkers,
                   isQuitting, timers, store, secureStore, windowOpen, now, statusBar, license>>

\* a probe loop that ends only at a successful probe
CheckServerUnbounded(h) ==
    /\ Handling
    /\ procs[h].waiter # "none"
    /\ \E ok \in BOOLEAN :
        /\ procs' = [procs EXCEPT ![h].probes = @ + 1,
                                  ![h].waiter = IF ok THEN "none" ELSE @]
        /\ autoStartPending' = IF ok /\ procs[h].waiter = "boot"
                               THEN TRUE ELSE autoStartPending
        /\ out' = Out("check-server", ok, NoStatus, St)
    /\ UNCHANGED <<platform, phase, pythonProcess, transcriptionWorkers,
                   isQuitting, timers, store, secureStore, windowOpen, now, statusBar, license>>

\* one iteration of waitForServer()'s loop: checkServer() probes /health;
\* the loop returns at the first successful probe and after the last
\* failed one, and its caller resumes
CheckServer(h) ==
    /\ Handling
    /\ procs[h].waiter # "none"
    /\ \E ok \in BOOLEAN :
        LET done == ok \/ procs[h].probes + 1 = ProbeLimit
        IN /\ procs' = [procs EXCEPT ![h].probes = @ + 1,
                                     ![h].waiter = IF done THEN "none" ELSE @]
           /\ autoStartPending' = IF done /\ procs[h].waiter = "boot"
                                  THEN TRUE ELSE autoStartPending
           /\ out' = Out("check-server", ok, NoStatus, St)
    /\ UNCHANGED <<platform, phase, pythonProcess, transcriptionWorkers,
                   isQuitting, timers, store, secureStore, windowOpen, now, statusBar, license>>

\* autoStartTranscriptionWorker(): the pool is started when the status
\* query fails or reports pending / in-progress courses; out.ok tells
\* whether the query answered and reported such courses
AutoStartTranscriptionWorker ==
    /\ Handling
    /\ autoStartPending
    /\ autoStartPending' = FALSE
    /\ \E queryOk \in BOOLEAN, work \in BOOLEAN, scriptFound \in BOOLEAN,
          oks \in [1..parallelWorkers -> BOOLEAN] :
        /\ NumTrue(oks) <= Room
        /\ LET r == IF ~queryOk \/ work
                    THEN startTranscriptionWorker(St, scriptFound, oks)
                    ELSE St
           IN Apply(r) /\ out' = Out("auto-start", queryOk /\ work, NoStatus, r)
    /\ UNCHANGED <<platform, phase, isQuitting, store, secureStore, windowOpen, now, statusBar, license>>

\* start-transcription spawning one worker more than parallelWorkers
StartTranscriptionOneMore ==
    /\ Handling
    /\ windowOpen
    /\ \E scriptFound \in BOOLEAN, oks \in [1..parallelWorkers + 1 -> BOOLEAN] :
        /\ NumTrue(oks) <= Room
        /\ LET r == startTranscriptionWorker(St, scriptFound, oks)
           IN Apply(r) /\ out' = Out("start-transcription", FALSE,
                                     PoolStatus(r.transcriptionWorkers), r)
    /\ UNCHANGED <<platform, phase, isQuitting, store, secureStore, windowOpen,
                   now, autoStartPending, statusBar, license>>

\* ipcMain.handle('start-transcription'): startTranscriptionWorker(), then
\* return {running, workerCount}
StartTranscription ==
    /\ Handling
    /\ windowOpen
    /\ \E scriptFound \in BOOLEAN, oks \in [1..parallelWorkers -> BOOLEAN] :
        /\ NumTrue(oks) <= Room
        /\ LET r == startTranscriptionWorker(St, scriptFound, oks)
           IN Apply(r) /\ out' = Out("start-transcription", FALSE,
                                     PoolStatus(r.transcriptionWorkers), r)
    /\ UNCHANGED <<platform, phase, isQuitting, store, secureStore, windowOpen,
                   now, autoStartPending, statusBar, license>>

\* ipcMain.handle('stop-transcription'): stopTranscriptionWorker(), then
\* return {running: false}
StopTranscription ==
    /\ Handling
    /\ windowOpen
    /\ LET r == stopTranscriptionWorker(St)
       IN Apply(r) /\ out' = Out("stop-transcription", FALSE, NoStatus, r)
    /\ UNCHANGED <<platform, phase, isQuitting, store, secureStore, windowOpen,
                   now, autoStartPending, statusBar, license>>

\* ipcMain.handle('set-settings', key, value)
SetSettings(key, value) ==
    /\ Handling
    /\ windowOpen
    /\ store' = setSettings(store, key, value)
    /\ out' = [Out("set-settings", settingsSchema(key, value), NoStatus, St)
                 EXCEPT !.req = [key |-> key, value |-> value]]
    /\ UNCHANGED <<platform, phase, procs, pythonProcess, transcriptionWorkers,
                   isQuitting, timers, autoStartPending, secureStore,
                   windowOpen, now, statusBar, license>>

\* ipcMain.handle('set-secure-setting', key, value)
SetSecureSetting(key, value) ==
    /\ Handling
    /\ windowOpen
    /\ secureStore' = setSecureSetting(secureStore, key, value)
    /\ out' = [Out("set-secure-setting", key \in SECURE_KEYS, NoStatus, St)
                 EXCEPT !.req = [key |-> key, value |-> value]]
    /\ UNCHANGED <<platform, phase, procs, pythonProcess, transcriptionWorkers,
                   isQuitting, timers, autoStartPending, store, windowOpen, now, statusBar, license>>

\* ipcMain.handle('open-external', url)
OpenExternal(u) ==
    /\ Handling
    /\ windowOpen
    /\ out' = [Out("open-external", FALSE, NoStatus, St)
                 EXCEPT !.url = u, !.opened = openExternal(u)]
    /\ UNCHANGED <<platform, phase, procs, pythonProcess, transcriptionWorkers,
                   isQuitting, timers, autoStartPending, store, secureStore,
                   windowOpen, now, statusBar, license>>

\* mainWindow.webContents.setWindowOpenHandler(({ url }) => ...): the page
\* asks for a new window (window.open, a target=_blank link); the url it
\* is handed is a resolved one, so it parses
WindowOpenHandler(u) ==
    /\ Handling
    /\ windowOpen
    /\ u.parses
    /\ out' = [Out("window-open", FALSE, NoStatus, St)
                 EXCEPT !.url = u, !.opened = TRUE]
    /\ UNCHANGED <<platform, phase, procs, pythonProcess, transcriptionWorkers,
                   isQuitting, timers, autoStartPending, store, secureStore,
                   windowOpen, now, statusBar, license>>

\* stdout.on('data') / stderr.on('data') of process h: a chunk is read
\* from one of its pipes (which are open until its 'close' event)
OnData(h, stream, chunk) ==
    /\ Handling
    /\ procs[h].state \in {"running", "exited"}
    /\ out' = [Out("data", FALSE, NoStatus, St)
                 EXCEPT !.data = [h |-> h, stream |-> stream, chunk |-> chunk],
                        !.relayed = Relay(procs[h].kind, stream, chunk),
                        !.console = Console(procs[h].kind, stream, chunk)]
    /\ UNCHANGED <<platform, phase, procs, pythonProcess, transcriptionWorkers,
                   isQuitting, timers, autoStartPending, store, secureStore,
                   windowOpen, now, statusBar, license>>

\* the renderer's onTranscriberLog callback receives a string
OnTranscriberLog(text) ==
    /\ windowOpen
    /\ out' = [Quiet EXCEPT !.op = "transcriber-log", !.received = text,
                            !.log = AddLog("[Worker]", Trim(text),
                                           LogType(Trim(text)))]
    /\ UNCHANGED <<platform, phase, procs, pythonProcess, transcriptionWorkers,
                   isQuitting, timers, autoStartPending, store, secureStore,
                   windowOpen, now, statusBar, license>>

\* the renderer's onTranscriberError callback receives a string
OnTranscriberError(text) ==
    /\ windowOpen
    /\ out' = [Quiet EXCEPT !.op = "transcriber-error", !.received = text,
                            !.log = AddLog("[Worker Error]", Trim(text),
                                           "error")]
    /\ UNCHANGED <<platform, phase, procs, pythonProcess, transcriptionWorkers,
                   isQuitting, timers, autoStartPending, store, secureStore,
                   windowOpen, now, statusBar, license>>

\* the renderer handles the transcriber-status events the last handler of
\* the main process sent
OnTranscriberStatus ==
    /\ windowOpen
    /\ out.sent # <<>>
    /\ statusBar' = Deliver(statusBar, out.sent)
    /\ out' = [Quiet EXCEPT !.op = "transcriber-status"]
    /\ UNCHANGED <<platform, phase, procs, pythonProcess, transcriptionWorkers,
                   isQuitting, timers, autoStartPending, store, secureStore,
                   windowOpen, now, license>>

\* the renderer calls activateLicense(key)
ActivateLicense(key, hasApi) ==
    /\ windowOpen
    /\ license' = activateLicense(license, key, hasApi)
    /\ out' = [Quiet EXCEPT !.op = "activate-license", !.key = key,
                            !.ok = hasApi /\ validateLicenseKey(key).valid]
    /\ UNCHANGED <<platform, phase, procs, pythonProcess, transcriptionWorkers,
                   isQuitting, timers, autoStartPending, store, secureStore,
                   windowOpen, now, statusBar>>

\* the renderer calls clearLicense()
ClearLicense ==
    /\ windowOpen
    /\ license' = LicenseInit
    /\ out' = [Quiet EXCEPT !.op = "clear-license"]
    /\ UNCHANGED <<platform, phase, procs, pythonProcess, transcriptionWorkers,
                   isQuitting, timers, autoStartPending, store, secureStore,
                   windowOpen, now, statusBar>>

\* set-settings for the key parallelWorkers
SetParallelWorkers ==
    \E v \in WorkerCountInputs : SetSettings("parallelWorkers", Num(v))

\* mainWindow 'closed': the window is destroyed (a close while quitting, or
\* any close of a development build)
WindowClosed ==
    /\ Handling
    /\ windowOpen
    /\ windowOpen' = FALSE
    /\ out' = Quiet
    /\ UNCHANGED <<platform, phase, procs, pythonProcess, transcriptionWorkers,
                   isQuitting, timers, autoStartPending, store, secureStore, now, statusBar, license>>

\* the wall clock Date.now() reads moves, forwards or (when it is set
\* back) backwards
Tick ==
    /\ Handling
    /\ \E c \in Clock \ {now} : now' = c
    /\ out' = Quiet
    /\ UNCHANGED <<platform, phase, procs, pythonProcess, transcriptionWorkers,
                   isQuitting, timers, autoStartPending, store, secureStore,
                   windowOpen, statusBar, license>>

\* app.on('before-quit')
BeforeQuitHandler ==
    /\ isQuitting' = TRUE
    /\ Apply(stopPythonServer(stopTranscriptionWorker(St)))

\* ipcMain.handle('quit-app'): isQuitting = true; app.quit() emits before-quit
QuitApp ==
    /\ phase = "ready"
    /\ BeforeQuitHandler
    /\ phase' = "quitting"
    /\ out' = Quiet
    /\ UNCHANGED <<platform, store, secureStore, windowOpen, now, autoStartPending, statusBar, license>>

\* tray menu 'Quit'
TrayQuit ==
    /\ phase = "ready"
    /\ BeforeQuitHandler
    /\ phase' = "quitting"
    /\ out' = Quiet
    /\ UNCHANGED <<platform, store, secureStore, windowOpen, now, autoStartPending, statusBar, license>>

\* a quit not requested through the supervisor (window-all-closed, OS)
BeforeQuit ==
    /\ phase = "ready"
    /\ BeforeQuitHandler
    /\ phase' = "quitting"
    /\ out' = Quiet
    /\ UNCHANGED <<platform, store, secureStore, windowOpen, now, autoStartPending, statusBar, license>>

\* app.on('quit'): the last handler to run in the main process
Quit ==
    /\ phase = "quitting"
    /\ Apply(stopPythonServer(stopTranscriptionWorker(St)))
    /\ phase' = "quit"
    /\ out' = Quiet
    /\ UNCHANGED <<platform, isQuitting, store, secureStore, windowOpen, now, autoStartPending, statusBar, license>>

Next ==
    \/ AppReady
    \/ RestartServer
    \/ TrayRestart
    \/ TimerFires
    \/ \E h \in Handles : ProcessExit(h)
    \/ \E h \in Handles : ServiceClose(h)
    \/ \E h \in Handles : WaitForServerReturns(h)
    \/ QuitApp
    \/ TrayQuit
    \/ BeforeQuit
    \/ Quit

\* The service supervisor and the quit sequence
Spec == Init /\ [][Next]_vars

\* The whole supervisor: service, worker pool, settings and quit
AppNext ==
    \/ Next
    \/ \E h \in Handles : WorkerClose(h)
    \/ AutoStartTranscriptionWorker
    \/ StartTranscription
    \/ StopTranscription
    \/ SetParallelWorkers

SpecApp == Init /\ [][AppNext]_vars

\* The worker pool: its starts, stops and exits, the setting it reads and
\* the window its events go to
PoolNext ==
    \/ AppReady
    \/ \E h \in Handles : WaitForServerReturns(h)
    \/ AutoStartTranscriptionWorker
    \/ StartTranscription
    \/ StopTranscription
    \/ \E h \in Handles : procs[h].kind = "worker" /\ ProcessExit(h)
    \/ \E h \in Handles : WorkerClose(h)
    \/ SetParallelWorkers
    \/ WindowClosed

SpecPool == Init /\ [][PoolNext]_vars

\* The worker pool and the clock its worker ids are taken from
IdsNext ==
    \/ AppReady
    \/ StartTranscription
    \/ StopTranscription
    \/ \E h \in Handles : procs[h].kind = "worker" /\ ProcessExit(h)
    \/ \E h \in Handles : WorkerClose(h)
    \/ Tick

SpecIds == Init /\ [][IdsNext]_vars

\* The relay of the output of the service and of the workers
RelayNext ==
    \/ AppReady
    \/ SetParallelWorkers
    \/ StartTranscription
    \/ \E h \in Handles, stream \in {"stdout", "stderr"}, chunk \in Chunks :
            OnData(h, stream, chunk)
    \/ WindowClosed

SpecRelay == Init /\ [][RelayNext]_vars

\* the renderer has handled every status event sent so far
Delivered == out.sent = <<>>

\* every worker spawned so far has had its 'close' handled
AllClosed ==
    \A h \in Handles : procs[h].kind = "worker" => procs[h].state = "closed"

\* Pool runs one after the other, as the renderer sees them: the renderer
\* handles each status event before the main process takes its next step,
\* and the pool is started only when the workers of earlier runs have closed
RunsNext ==
    \/ AppReady
    \/ Delivered /\ SetParallelWorkers
    \/ Delivered /\ AllClosed /\ StartTranscription
    \/ Delivered /\ StopTranscription
    \/ \E h \in Handles : Delivered /\ procs[h].kind = "worker" /\ ProcessExit(h)
    \/ \E h \in Handles : Delivered /\ WorkerClose(h)
    \/ OnTranscriberStatus

SpecRuns == Init /\ [][RunsNext]_vars

\* The two ways content of the page gets an external resource opened
LinksNext ==
    \/ AppReady
    \/ \E u \in UrlInputs : OpenExternal(u)
    \/ \E u \in UrlInputs : WindowOpenHandler(u)

SpecLinks == Init /\ [][LinksNext]_vars

\* The license state of the renderer of the main window
LicenseNext ==
    \/ AppReady
    \/ \E key \in LicenseKeys, hasApi \in BOOLEAN : ActivateLicense(key, hasApi)
    \/ ClearLicense

SpecLicense == Init /\ [][LicenseNext]_vars

\* The renderer's log of worker output
LogNext ==
    \/ AppReady
    \/ \E text \in LogTexts : OnTranscriberLog(text)
    \/ \E text \in LogTexts : OnTranscriberError(text)

SpecLog == Init /\ [][LogNext]_vars

\* The service started at launch and its health polling, probe by probe
HealthNext ==
    \/ AppReady
    \/ \E h \in Handles : CheckServer(h)
    \/ \E h \in Handles : ProcessExit(h)
    \/ \E h \in Handles : ServiceClose(h)
    \/ QuitApp
    \/ Quit

SpecHealth == Init /\ [][HealthNext]_vars

\* The application is ready on a POSIX system, its service running
InitSettings ==
    /\ platform = "posix"
    /\ phase = "ready"
    /\ store = StoreDefaults
    /\ procs = <<NewProc("service", TRUE, "boot")>>
    /\ pythonProcess = 1
    /\ transcriptionWorkers = <<>>
    /\ isQuitting = FALSE
    /\ timers = 0
    /\ autoStartPending = FALSE
    /\ secureStore = [k \in {} |-> Null]
    /\ windowOpen = TRUE
    /\ now = 0
    /\ statusBar = StatusBarInit
    /\ license = LicenseInit
    /\ out = Quiet

\* settings whose stored value is not the one of the first launch
Changed ==
    Cardinality({k \in DOMAIN store :
                    k \notin DOMAIN StoreDefaults \/ store[k] # StoreDefaults[k]})
        + Cardinality(DOMAIN secureStore)

\* The settings gateway and the open-external gateway
SettingsNext ==
    /\ Changed < MaxChanged
    /\ \/ \E key \in SettingNames, value \in SettingValues : SetSettings(key, value)
       \/ \E key \in SettingNames, value \in SecureValues : SetSecureSetting(key, value)
       \/ \E u \in UrlInputs : OpenExternal(u)

SpecSettings == InitSettings /\ [][SettingsNext]_vars

TypeOK ==
    /\ platform \in Platforms
    /\ phase \in {"init", "ready", "quitting", "quit"}
    /\ pythonProcess \in 0..Len(procs)
    /\ Len(procs) <= MaxProcs
    /\ timers \in 0..MaxProcs
    /\ parallelWorkers \in 1..8
    /\ DOMAIN store = SchemaKeys
    /\ now \in Clock
    /\ windowOpen \in BOOLEAN
    /\ statusBar.workerRunning \in BOOLEAN
    /\ statusBar.workerCount \in 0..8
    /\ statusBar.stopped \in 0..MaxProcs
    /\ license.tier \in DOMAIN TIER_FEATURES
    /\ license.status \in {"valid", "invalid", "expired", "none"}

(***************************************************************************)
(* Claims about the service supervisor                                     *)
(***************************************************************************)

ServiceProcs == {h \in Handles : procs[h].kind = "service" /\ procs[h].pid}
LiveServices == {h \in ServiceProcs : procs[h].state = "running"}

\* the 'close' event of handle h is handled in this step
Closes(h) == procs[h].state = "exited" /\ procs'[h].state = "closed"

\* C1: at no instant are two backend service processes spawned by the
\* supervisor alive (spawned and not yet exited) at the same time.
C1_AtMostOneServiceAlive == Cardinality(LiveServices) <= 1

\* C2: the exit of a service process that was deliberately stopped (a
\* termination request was sent to it) schedules no startPythonServer call
\* and does not alter the tracked handle.
C2_StoppedExitSkipsCrashHandler ==
    [][\A h \in ServiceProcs :
         (Closes(h) /\ procs[h].kills > 0 /\ ~isQuitting)
            => (timers' = timers /\ pythonProcess' = pythonProcess)]_vars

\* C3 (as claimed): an unexpected exit while not quitting clears the handle
\* and schedules one restart; the restart spawns exactly one replacement
\* process, which becomes the tracked one.
C3_ExitSpawnsOneReplacement ==
    [][/\ \A h \in ServiceProcs :
            (Closes(h) /\ procs[h].kills = 0 /\ ~isQuitting)
               => (pythonProcess' = 0 /\ timers' = timers + 1)
       /\ timers' < timers
            => /\ timers' = timers - 1
               /\ Len(procs') = Len(procs) + 1
               /\ procs'[Len(procs')].kind = "service"
               /\ procs'[Len(procs')].state = "running"
               /\ pythonProcess' = Len(procs')]_vars

\* C3 (amended): an unexpected exit while not quitting clears the handle and
\* schedules exactly one startPythonServer call; that call makes one spawn
\* attempt: it adds at most one handle, a service handle that becomes the
\* tracked one, and none when the script or executable is missing.
C3_ExitSchedulesOneStartAttempt ==
    [][/\ \A h \in ServiceProcs :
            (Closes(h) /\ procs[h].kills = 0 /\ ~isQuitting)
               => (pythonProcess' = 0 /\ timers' = timers + 1)
       /\ timers' < timers
            => /\ timers' = timers - 1
               /\ Len(procs') <= Len(procs) + 1
               /\ Len(procs') = Len(procs) + 1
                    => /\ procs'[Len(procs')].kind = "service"
                       /\ pythonProcess' = Len(procs')
               /\ Len(procs') = Len(procs) => pythonProcess' = pythonProcess]_vars

\* a replacement spawned by the crash-restart timer is running and tracked
C3_Witness ==
    \E h \in ServiceProcs :
        /\ procs[h].waiter = "timer"
        /\ procs[h].state = "running"
        /\ pythonProcess = h

\* C4: a start while a service process is tracked and running (here the
\* start made by the crash-restart timer, which no stop precedes) spawns
\* nothing and keeps the tracked handle.
C4_StartIsIdempotent ==
    [][(/\ timers' < timers
        /\ pythonProcess # 0
        /\ procs[pythonProcess].state = "running")
          => (Len(procs') = Len(procs) /\ pythonProcess' = pythonProcess)]_vars

\* C5: stopPythonServer with no tracked process changes nothing (no
\* termination request, no state change), and stopping twice in a row
\* leaves the same state as stopping once.
C5_StopIsIdempotent ==
    /\ pythonProcess = 0 => stopPythonServer(St) = St
    /\ stopPythonServer(stopPythonServer(St)) = stopPythonServer(St)

\* a stop has acted: nothing is tracked while the stopped process, with its
\* one termination request, is still running
C5_Witness ==
    /\ pythonProcess = 0
    /\ \E h \in ServiceProcs : procs[h].kills = 1 /\ procs[h].state = "running"

\* C6: once isQuitting is set no backend service process is spawned any
\* more; stated for the spawn path the claim names, a crash-restart timer
\* scheduled before the flag was set.
C6_NoSpawnAfterQuitting ==
    [][(isQuitting /\ timers' < timers) => Len(procs') = Len(procs)]_vars

\* C7: after the before-quit and quit handlers have run, every service and
\* worker process the supervisor spawned has exited or has been sent a
\* termination request.
C7_NoOrphansAfterQuit ==
    phase = "quit" =>
        \A h \in Handles :
            procs[h].pid => (procs[h].state # "running" \/ procs[h].kills > 0)

\* C8: a failed spawn is not retried: restart timers are only ever scheduled
\* by the close of a process that had started, a handle without a pid never
\* changes again, and a start that spawned nothing or no process leaves no
\* timer behind.
C8_SpawnFailureNotRetried ==
    [][/\ timers' > timers
            => /\ timers' = timers + 1
               /\ \E h \in ServiceProcs : Closes(h)
       /\ \A h \in Handles : ~procs[h].pid => procs'[h] = procs[h]
       /\ (Len(procs') > Len(procs) /\ ~procs'[Len(procs')].pid)
            => timers' <= timers]_vars

\* a spawn has failed: the handle without a pid is tracked, no timer pending
C8_Witness ==
    /\ pythonProcess # 0
    /\ ~procs[pythonProcess].pid
    /\ timers = 0

\* C9: get-server-status reports running = true iff a service process that
\* was successfully spawned (has a pid) has not exited.
C9_StatusReflectsProcess == ServerStatusRunning <=> LiveServices # {}

\* C10: a restart-server request is answered as soon as its spawn has
\* succeeded or failed: no request is still unanswered, waiting for the
\* health probing of the process it spawned.
C10_ReplyDoesNotWaitForHealth ==
    \A h \in Handles : procs[h].waiter # "ipc"

\* live service processes no termination request was sent to
UnstoppedServices == {h \in LiveServices : procs[h].kills = 0}

\* C11: however restart requests (restart-server, the tray's restart, the
\* crash-restart timer) and close events interleave, they leave at most one
\* live service process that was not told to stop, that process is the
\* tracked one, and the tracked handle is not one whose process is gone
\* and closed.
C11_RestartsLeaveOneTrackedService ==
    /\ Cardinality(UnstoppedServices) <= 1
    /\ \A h \in UnstoppedServices : pythonProcess = h
    /\ (pythonProcess # 0 /\ procs[pythonProcess].pid)
            => procs[pythonProcess].state # "closed"

(***************************************************************************)
(* Claims about the worker pool                                            *)
(***************************************************************************)

Range(q) == {q[i] : i \in 1..Len(q)}
Workers == {h \in Handles : procs[h].kind = "worker"}

\* this step is a call of startTranscriptionWorker
StartsPool == out'.op \in {"start-transcription", "auto-start"}

\* C12: a pool start while the tracked set is non-empty spawns nothing,
\* leaves the tracked set (and every process) as it was and sends no
\* status event.
C12_StartOnRunningPoolIsNoOp ==
    [][(StartsPool /\ Len(transcriptionWorkers) > 0)
          => /\ procs' = procs
             /\ transcriptionWorkers' = transcriptionWorkers
             /\ out'.spawns = 0
             /\ out'.sent = <<>>]_vars

\* start-transcription has answered {running: true} without a spawn: the
\* pool was running when it was called
C12_Witness ==
    /\ out.op = "start-transcription"
    /\ out.status.running
    /\ out.spawns = 0
    /\ Len(transcriptionWorkers) > 0

C14_TrackedWithinCurrentSetting ==
    Cardinality({h \in Range(transcriptionWorkers) : procs[h].state = "running"})
        <= parallelWorkers

\* C14 (amended): the tracked set grows only at a start of the empty pool,
\* and then to at most the parallelWorkers configured at that start; a
\* set-settings changes neither the tracked set nor any process.
C14_TrackedWithinSettingAtStart ==
    [][/\ Len(transcriptionWorkers') > Len(transcriptionWorkers)
            => /\ Len(transcriptionWorkers) = 0
               /\ StartsPool
               /\ Len(transcriptionWorkers') <= parallelWorkers
       /\ store' # store
            => /\ transcriptionWorkers' = transcriptionWorkers
               /\ procs' = procs]_vars

\* two tracked workers are running after parallelWorkers was lowered to 1
C14_Witness ==
    /\ parallelWorkers = 1
    /\ Len(transcriptionWorkers) = 2
    /\ \A h \in Range(transcriptionWorkers) : procs[h].state = "running"

\* C15: no two workers spawned in one run of the application carry the
\* same worker identifier.
C15_WorkerIdsUnique ==
    \A g \in Workers, h \in Workers : g # h => procs[g].wid # procs[h].wid

\* C16: stop-transcription sends every tracked worker one termination
\* request and no other process any, empties the tracked set and answers
\* {running: false}; a status query then reports running = false and
\* workerCount = 0; on an empty pool it changes no process.
C16_StopTerminatesAndClears ==
    [][out'.op = "stop-transcription"
          => /\ \A h \in Range(transcriptionWorkers) :
                    procs'[h].kills = procs[h].kills + 1
             /\ \A h \in Handles \ Range(transcriptionWorkers) :
                    procs'[h] = procs[h]
             /\ Len(procs') = Len(procs)
             /\ transcriptionWorkers' = <<>>
             /\ ~out'.status.running
             /\ PoolStatus(transcriptionWorkers') = [running |-> FALSE, workerCount |-> 0]
             /\ out'.sent = <<>>]_vars

\* stop-transcription has just stopped a pool of two workers
C16_Witness ==
    /\ out.op = "stop-transcription"
    /\ transcriptionWorkers = <<>>
    /\ Cardinality({h \in Workers : procs[h].kills = 1}) = 2

ProcessState == <<platform, phase, procs, pythonProcess, transcriptionWorkers,
                  isQuitting, timers, autoStartPending, windowOpen>>

\* C18: a set-settings whose value fails the validator of its (registered)
\* name (a wrong type, a number out of range such as parallelWorkers = 999,
\* a non-member such as theme = 'ultraviolet') returns false and leaves
\* every stored setting as it was.
C18_InvalidValueRejected ==
    [][/\ (/\ out'.op = "set-settings"
           /\ out'.req.key \in SchemaKeys
           /\ ~settingsSchema(out'.req.key, out'.req.value))
          => /\ ~out'.ok
             /\ store' = store
             /\ secureStore' = secureStore
       /\ ~settingsSchema("parallelWorkers", Num(999))
       /\ ~settingsSchema("serverPort", Num(65536))
       /\ ~settingsSchema("theme", Str("ultraviolet"))
       /\ ~settingsSchema("gpuAcceleration", Str("light"))]_vars

\* parallelWorkers = 999 was refused after parallelWorkers = 2 was stored
C18_Witness ==
    /\ out.op = "set-settings"
    /\ out.req = [key |-> "parallelWorkers", value |-> Num(999)]
    /\ ~out.ok
    /\ store["parallelWorkers"] = Num(2)

\* C19: a write under an unregistered name is refused and writes nothing:
\* set-settings writes only the nine schema keys, set-secure-setting only
\* 'openaiApiKey'.
C19_UnregisteredNameRejected ==
    [][/\ DOMAIN store' \subseteq SchemaKeys
       /\ DOMAIN secureStore' \subseteq SECURE_KEYS
       /\ (out'.op = "set-settings" /\ out'.req.key \notin SchemaKeys)
            => (~out'.ok /\ store' = store /\ secureStore' = secureStore)
       /\ (out'.op = "set-secure-setting" /\ out'.req.key \notin SECURE_KEYS)
            => (~out'.ok /\ store' = store /\ secureStore' = secureStore)
       /\ out'.op = "set-settings" => secureStore' = secureStore
       /\ out'.op = "set-secure-setting" => store' = store]_vars

\* set-secure-setting has refused the name 'theme' while a key is stored
C19_Witness ==
    /\ out.op = "set-secure-setting"
    /\ out.req.key = "theme"
    /\ ~out.ok
    /\ DOMAIN secureStore = {"openaiApiKey"}
    /\ store["theme"] = Str("dark")

\* C20 (as claimed): a set-settings with a registered name and a valid
\* value returns true, stores exactly that value under that name and
\* leaves every other setting and all process state as they were.
C20_ValidValueStoredAsGiven ==
    [][(/\ out'.op = "set-settings"
        /\ settingsSchema(out'.req.key, out'.req.value))
          => /\ out'.ok
             /\ store'[out'.req.key] = out'.req.value
             /\ DOMAIN store' = DOMAIN store
             /\ \A k \in DOMAIN store \ {out'.req.key} : store'[k] = store[k]
             /\ secureStore' = secureStore
             /\ ProcessState' = ProcessState]_vars

\* C20 (amended): a set-settings with a registered name and a valid value
\* returns true, stores under that name the value as the validator parsed
\* it (the value itself, a windowBounds object without the properties
\* other than width and height) and leaves every other setting and all
\* process state as they were.
C20_ValidValueStoredAsParsed ==
    [][(/\ out'.op = "set-settings"
        /\ settingsSchema(out'.req.key, out'.req.value))
          => /\ out'.ok
             /\ store'[out'.req.key] = [out'.req.value EXCEPT !.extra = FALSE]
             /\ DOMAIN store' = DOMAIN store
             /\ \A k \in DOMAIN store \ {out'.req.key} : store'[k] = store[k]
             /\ secureStore' = secureStore
             /\ ProcessState' = ProcessState]_vars

\* a windowBounds object with a further property was accepted and stored
\* without it, the theme stored before is still there
C20_Witness ==
    /\ out.op = "set-settings"
    /\ out.req = [key |-> "windowBounds", value |-> ObjExtra(800, 600)]
    /\ out.ok
    /\ store["windowBounds"] = Obj(800, 600)
    /\ store["theme"] = Str("light")

\* a path-valued setting is asked to hold an empty path
EmptyPathRequest(req) ==
    \/ req.key = "transcriptsPath" /\ req.value = Str("")
    \/ /\ req.key = "sourceDirectories"
       /\ req.value.t = "array"
       /\ \E i \in 1..Len(req.value.items) : req.value.items[i] = ""

\* C21: a set-settings writing an empty string to a path-valued setting
\* (transcriptsPath, or an entry of sourceDirectories) returns false and
\* leaves the store as it was.
C21_EmptyPathRejected ==
    [][(out'.op = "set-settings" /\ EmptyPathRequest(out'.req))
          => (~out'.ok /\ store' = store)]_vars

(***************************************************************************)
(* Claims about open-external                                              *)
(***************************************************************************)

\* the string is a URL whose scheme is http or https
IsWebUrl(u) == u.parses /\ u.scheme \in {"http", "https", "HTTP", "HTTPS"}

\* C22: open-external opens a URL only if it parses as a URL whose scheme
\* is http or https (and then it does); for any other scheme and for an
\* unparsable string nothing is opened.
C22_OpensOnlyWebUrls ==
    [][out'.op = "open-external"
          => (out'.opened <=> IsWebUrl(out'.url))]_vars

\* a javascript: URL was refused
C22_Witness ==
    /\ out.op = "open-external"
    /\ out.url = Url("javascript", "")
    /\ ~out.opened

\* C23: open-external does not open an http or https URL whose host is a
\* loopback or internal target (127.0.0.1, localhost, ::1, 0.0.0.0).
C23_LoopbackNotOpened ==
    [][(/\ out'.op = "open-external"
        /\ IsWebUrl(out'.url)
        /\ out'.url.host \in {"127.0.0.1", "localhost", "[::1]", "0.0.0.0"})
          => ~out'.opened]_vars

(***************************************************************************)
(* Claims about termination and health polling                             *)
(***************************************************************************)

\* C24: termination escalates: when the supervisor has run its last
\* handler, no process that was sent a termination request is still
\* running without having been sent a forceful one.
C24_TerminationEscalates ==
    phase = "quit" =>
        \A h \in Handles :
            (procs[h].kills > 0 /\ procs[h].state = "running") => procs[h].forced

\* C25: a poll loop issues at most 60 probes, one at a time and only while
\* it runs; it ends exactly at its first successful probe or at its 60th
\* failed one and never resumes; a probe, failed or not, changes neither
\* the tracked handle nor the restart timers nor the state of, or the
\* termination requests sent to, any process.
C25_HealthPollBoundedAndHarmless ==
    [][\A h \in Handles :
          /\ procs'[h].probes <= 60
          /\ procs[h].waiter = "none" => procs'[h].waiter = "none"
          /\ procs'[h].probes # procs[h].probes
                => /\ procs[h].waiter # "none"
                   /\ procs'[h].probes = procs[h].probes + 1
                   /\ out'.op = "check-server"
                   /\ procs'[h].waiter = "none"
                        <=> (out'.ok \/ procs'[h].probes = 60)
                   /\ pythonProcess' = pythonProcess
                   /\ timers' = timers
                   /\ Len(procs') = Len(procs)
                   /\ \A g \in Handles :
                        /\ procs'[g].state = procs[g].state
                        /\ procs'[g].kills = procs[g].kills]_vars

\* the 60th probe has failed: the loop is over, the service process is
\* still running and tracked
C25_Witness ==
    /\ out.op = "check-server"
    /\ ~out.ok
    /\ pythonProcess # 0
    /\ procs[pythonProcess].probes = 60
    /\ procs[pythonProcess].waiter = "none"
    /\ procs[pythonProcess].state = "running"
    /\ timers = 0

(***************************************************************************)
(* Claims about the start of the pool at launch                            *)
(***************************************************************************)

\* C29: at launch the pool is started if and only if the pending-work
\* query reported outstanding work: when the query fails or reports none,
\* nothing is spawned and the pool is as it was; when it reports work and
\* the pool is empty, startTranscriptionWorker runs.
C29_AutoStartIffPendingWork ==
    [][out'.op = "auto-start"
          => /\ ~out'.ok
                  => /\ out'.spawns = 0
                     /\ out'.errors = 0
                     /\ procs' = procs
                     /\ transcriptionWorkers' = transcriptionWorkers
             /\ (out'.ok /\ Len(transcriptionWorkers) = 0)
                  => (out'.spawns = parallelWorkers \/ out'.errors = 1)]_vars

\* C30: autoStartTranscriptionWorker (which issues the pending-work query)
\* is called only when the poll loop of the service started at launch has
\* ended, by a successful probe or by its 60th failed one; never for a
\* start that spawned no service process.
C30_QueryOnlyAfterHealthWait ==
    [][(autoStartPending' /\ ~autoStartPending)
          => \E h \in Handles :
                /\ procs[h].kind = "service"
                /\ procs[h].pid
                /\ procs[h].waiter = "boot"
                /\ procs'[h].waiter = "none"
                /\ out'.ok \/ procs'[h].probes = 60]_vars

\* the lines a 'data' handler's filter suppresses on purpose
Suppressed(kind, stream, chunk) ==
    /\ stream = "stderr"
    /\ IF kind = "worker" THEN IsFFmpegNoise(chunk) ELSE IsAccessLog(chunk)

\* the non-blank lines of a sequence of events, in the order of the events
RECURSIVE EventLines(_)
EventLines(events) ==
    IF events = <<>> THEN <<>>
    ELSE SplitLines(Head(events).text) \o EventLines(Tail(events))

\* the events hold the non-blank lines of the chunk, once each and in the
\* order of the chunk, and no event holds more than one of them
OneEventPerLine(events, chunk) ==
    /\ EventLines(events) = SplitLines(chunk)
    /\ \A i \in 1..Len(events) : Len(SplitLines(events[i].text)) <= 1

\* C26: while the window exists, every non-blank line of a chunk that holds
\* no filtered line is forwarded exactly once, as an event of its own, in
\* the order in which its source wrote it: lines are neither batched into
\* one event, nor reordered, nor duplicated.
C26_OneEventPerLineInOrder ==
    [][(out'.op = "data" /\ windowOpen
        /\ ~Suppressed(procs[out'.data.h].kind, out'.data.stream,
                       out'.data.chunk))
       => OneEventPerLine(out'.relayed, out'.data.chunk)]_vars

\* the lines of a chunk of worker stderr that hold a noise marker
IsNoiseLine(l) == IsFFmpegNoise(<<l>>)

\* the line is part of an error event sent to the renderer
ForwardedAsError(l, events) ==
    \E i \in 1..Len(events) :
        /\ events[i].channel = "transcriber-error"
        /\ \E j \in 1..Len(events[i].text) : events[i].text[j] = l

\* the line reaches the renderer in some event
ReachesUI(l, events) ==
    \E i \in 1..Len(events) :
        \E j \in 1..Len(events[i].text) : events[i].text[j] = l

\* C27: of a chunk of worker stderr read while the window exists, every
\* non-blank line that holds no noise marker is forwarded as an error event,
\* also when the chunk holds a noise line; a noise line never reaches the
\* renderer and the chunk that holds one is written to the console.
C27_NoiseFilterHidesOnlyNoise ==
    [][(out'.op = "data" /\ windowOpen
        /\ procs[out'.data.h].kind = "worker" /\ out'.data.stream = "stderr")
       => \A i \in 1..Len(out'.data.chunk) :
            LET l == out'.data.chunk[i]
            IN /\ (l # "" /\ ~IsNoiseLine(l))
                    => ForwardedAsError(l, out'.relayed)
               /\ IsNoiseLine(l)
                    => (~ReachesUI(l, out'.relayed) /\ out'.console # <<>>)]_vars

\* the worker identifier an event sent to the renderer carries: the payload
\* of 'transcriber-log' and 'transcriber-error' is the string alone
NoWorker == <<>>
Attribution(e) == IF "worker" \in DOMAIN e THEN e.worker ELSE NoWorker

\* two or more workers are running
SeveralWorkers ==
    Cardinality({h \in Handles : procs[h].kind = "worker"
                                  /\ procs[h].state = "running"}) >= 2

\* C28: with two or more workers running, every event sent to the renderer
\* for a chunk of a worker's output carries the identifier of the worker
\* that wrote it, never another worker's and never none.
C28_EventsAttributedToWorker ==
    [][(out'.op = "data" /\ SeveralWorkers
        /\ procs[out'.data.h].kind = "worker")
       => \A i \in 1..Len(out'.relayed) :
            Attribution(out'.relayed[i]) = procs[out'.data.h].wid]_vars


\* the classification the specification gives a log line
Classification(line) ==
    CASE Includes(line, "COMPLETED") \/ Includes(line, "SUCCESS") -> "success"
      [] OTHER ->
         CASE Includes(line, "ERROR") \/ Includes(line, "FAILED") -> "error"
           [] OTHER ->
              CASE Includes(line, "Processing:")
                   \/ Includes(line, "Transcribing") -> "progress"
                [] OTHER -> "info"

\* C31: every non-blank worker stdout line the renderer receives is logged
\* with exactly one type, chosen in fixed priority: success if it contains
\* COMPLETED or SUCCESS, otherwise error if it contains ERROR or FAILED,
\* otherwise progress if it contains 'Processing:' or 'Transcribing',
\* otherwise info; every non-blank worker stderr message is logged as error.
C31_ClassificationByPriority ==
    [][/\ (out'.op = "transcriber-log" /\ Trim(out'.received) # <<>>)
          => /\ out'.log.added
             /\ out'.log.type = Classification(Trim(out'.received))
       /\ (out'.op = "transcriber-error" /\ Trim(out'.received) # <<>>)
          => (out'.log.added /\ out'.log.type = "error")]_vars

\* a line with a completion and a failure marker was logged as success
C31_Witness ==
    /\ out.op = "transcriber-log"
    /\ Includes(out.received, "COMPLETED")
    /\ Includes(out.received, "FAILED")
    /\ out.log.added
    /\ out.log.type = "success"


\* the workers of the model that are running
RunningWorkers ==
    {h \in Handles : procs[h].kind = "worker" /\ procs[h].state = "running"}

\* C32: a start-transcription on an empty pool (after a stop-pool, or the
\* first start) whose spawns all succeed reports workerCount equal to the
\* parallelWorkers last accepted by set-settings; a set-settings of
\* parallelWorkers changes neither the tracked set nor any process, so the
\* number of running workers stays what it was until that stop/start cycle.
C32_CountAppliesAtNextStart ==
    [][/\ (out'.op = "start-transcription" /\ transcriptionWorkers = <<>>
           /\ out'.errors = 0)
          => /\ out'.status = [running |-> TRUE, workerCount |-> parallelWorkers]
             /\ Len(transcriptionWorkers') = parallelWorkers
       /\ (out'.op = "set-settings" /\ out'.req.key = "parallelWorkers")
          => /\ UNCHANGED <<transcriptionWorkers, procs>>
             /\ RunningWorkers' = RunningWorkers]_vars

\* parallelWorkers was raised to 2 while one worker ran; after stop-pool and
\* start-pool two workers are tracked and reported
C32_Witness ==
    /\ out.op = "start-transcription"
    /\ parallelWorkers = 2
    /\ out.status.workerCount = 2
    /\ \E h \in Handles : /\ procs[h].kind = "worker"
                          /\ procs[h].kills > 0
                          /\ \A i \in 1..Len(transcriptionWorkers) :
                                transcriptionWorkers[i] # h


\* h is a worker of an earlier pool run: it was told to stop and is no
\* longer tracked
OldRunWorker(h) ==
    /\ procs[h].kind = "worker"
    /\ procs[h].kills > 0
    /\ h \notin Range(transcriptionWorkers)

\* C33: the close of a worker of an earlier pool run that is handled while
\* a later pool run has workers tracked leaves the tracked set as it is and
\* sends no transcriber-status event.
C33_OldRunCloseIsInert ==
    [][\A h \in Handles :
          (Closes(h) /\ OldRunWorker(h) /\ transcriptionWorkers # <<>>)
            => /\ transcriptionWorkers' = transcriptionWorkers
               /\ out'.sent = <<>>]_vars

\* the close of a stopped worker was handled after the pool had been
\* started again, and the new pool is intact
C33_Witness ==
    /\ out.op = "worker-close"
    /\ out.sent = <<>>
    /\ transcriptionWorkers # <<>>
    /\ windowOpen
    /\ \E h \in Handles : /\ OldRunWorker(h) /\ procs[h].state = "closed"
                          /\ \A g \in Range(transcriptionWorkers) :
                                g > h /\ procs[g].state = "running"


\* C34: after the start of a pool run the renderer is told at most once
\* that the pool has stopped (a status {running: false}), whether the
\* workers exited by themselves or were stopped by stop-pool, until the pool
\* is started again.
C34_StoppedEventOncePerRun == statusBar.stopped <= 1


\* C35: a transcriber-status event with running = true is sent only by a
\* step that leaves at least one worker tracked, and its workerCount is the
\* number tracked (at least 1), as the status query would report it.
C35_RunningEventOnlyWithWorkers ==
    [][\A i \in 1..Len(out'.sent) :
          out'.sent[i].running
            => /\ Len(transcriptionWorkers') >= 1
               /\ out'.sent[i].workerCount = Len(transcriptionWorkers')
               /\ PoolStatus(transcriptionWorkers').running]_vars


\* C36: while the tracked service process is running, the port that
\* get-server-status reports, and that the pending-work query is sent to,
\* is the port that process was given as its --port argument.
C36_ReportedPortIsSpawnPort ==
    (pythonProcess # 0 /\ procs[pythonProcess].state = "running")
        => ServerStatusPort = procs[pythonProcess].port


\* C37: whichever way the page gets an external resource opened (the
\* open-external request or the window-open handler of the main window),
\* the URL handed to the operating system has scheme http or https.
C37_EveryOpenedUrlIsWeb ==
    [][(out'.op \in {"open-external", "window-open"} /\ out'.opened)
          => IsWebUrl(out'.url)]_vars


\* the processes whose waitForServer() loop is still running
PollLoops == {h \in Handles : procs[h].waiter # "none"}

\* C38: at most one health-poll loop is running, and a loop probes only
\* while the process it was started for is the tracked service process:
\* once that process has closed or has been replaced, its loop issues no
\* further probe.
C38_PollsOnlyTrackedService ==
    [][/\ Cardinality(PollLoops) <= 1
       /\ \A h \in Handles :
            procs'[h].probes > procs[h].probes => pythonProcess = h]_vars


\* the features no free tier has
PaidFeatures == TIER_FEATURES["pro_plus"] \ TIER_FEATURES["free"]

\* C39: canUseFeature answers true for a paid-only feature (export,
\* unlimited_courses, cloud_backup, auto_transcribe) only while
\* license.status is 'valid'; so after a failed activation, whatever
\* activations and clearLicense calls came before, no paid feature is usable.
C39_PaidFeaturesNeedValidLicense ==
    \A f \in PaidFeatures, withinHours \in BOOLEAN, withinCourses \in BOOLEAN :
        canUseFeature(license, f, withinHours, withinCourses)
            => license.status = "valid"

====
